---- MODULE Spec2Model ----
(***************************************************************************)
(* Backlog-modify generation: the single-flight state of common.ts, the    *)
(* /generate, /stop and /status handlers, and the background task          *)
(* generateBacklogModify with the promise chain the /generate handler      *)
(* attaches to it.                                                         *)
(*                                                                         *)
(* One step of the model is one run-to-completion turn of the Node event   *)
(* loop: a whole HTTP handler (none of the three awaits anything), or the  *)
(* part of the background task between two awaits.  The task's try/catch/  *)
(* finally blocks run inside the turn that throws or returns; the .catch   *)
(* and .finally reactions of the handler are microtasks, which run before  *)
(* any further request or I/O completion is served.                        *)
(***************************************************************************)
EXTENDS Integers, Sequences, FiniteSets, TLC

\* Number of accepted starts explored (each creates one AbortController).
MaxJobs == 2
\* Number of messages one provider stream yields at most (streams are finite).
MaxMsgs == 2
\* Changes held by the plans of the apply requests in flight
MaxPlan == 3
\* POST /apply requests whose responses are kept
MaxApplies == 2
\* File-system and workspace requests in flight at once
MaxFsReqs == 2
MaxClients == 2
MaxEvents == 3
\* Calls of one kind the dialog has issued that have not settled
MaxCalls == 2

Null == 0
Undefined == -1

Jobs == 1..MaxJobs

VARIABLES
  isRunning,               \* common.ts: let isRunning
  currentAbortController,  \* common.ts: let currentAbortController (Null or a job's controller)
  aborted,                 \* aborted[h]: abortController.signal.aborted of controller h
  created,                 \* number of AbortControllers created so far
  task,                    \* task[j]: the background task launched with controller j
                           \* (yielded: the messages its provider stream has delivered;
                           \*  calls: the options of the provider calls it has issued)
  bus,                     \* the 'backlog-modify:event' payloads emitted, in emission order
  res,                     \* the last HTTP response sent
  features,                \* feature storage: features[id] is the stored status of feature id
  apply,                   \* the locals of each POST /apply request in flight
  applyRes,                \* the response to each POST /apply request
  allowedPaths,            \* lib/security: the allowed paths
  fsReq,                   \* the file-system and workspace requests in flight: the route,
                           \* the await the handler is suspended at, its locals, and
                           \* the file operations it has called so far
  fsLast,                  \* the response sent by the latest step, if it sent one: the
                           \* file operations the request called, the code
  clients,                 \* clients[c]: WebSocket c's readyState, whether its bus
                           \* subscription is in place, and the events sent to it
  emitted,                 \* number of events emitted on the bus of the WebSocket server
  dialog                   \* BacklogModifyDialog: its props, its state and its pending call

jobVars == <<isRunning, currentAbortController, aborted, created, task, bus, res>>
applyVars == <<features, apply, applyRes>>
fsVars == <<allowedPaths, fsReq, fsLast>>
wsVars == <<clients, emitted>>
dialogVars == <<dialog>>
exceptJobVars == <<applyVars, fsVars, wsVars, dialogVars>>
exceptApplyVars == <<jobVars, fsVars, wsVars, dialogVars>>
exceptFsVars == <<jobVars, applyVars, wsVars, dialogVars>>
exceptWsVars == <<jobVars, applyVars, fsVars, dialogVars>>
exceptDialogVars == <<jobVars, applyVars, fsVars, wsVars>>
vars == <<isRunning, currentAbortController, aborted, created, task, bus, res,
          features, apply, applyRes, allowedPaths, fsReq, fsLast, clients, emitted, dialog>>

-----------------------------------------------------------------------------
(* Request bodies *)

\* "" stands for a missing (falsy) field.
ProjectPaths == {"", "/proj"}
Prompts == {"", "tidy"}
Models == {"", "cursor-x"}

(* Provider messages *)

TextBlock(t) == [type |-> "text", text |-> t]
ToolUseBlock == [type |-> "tool_use", text |-> ""]

Msg(type, subtype, content, result) ==
  [type |-> type, subtype |-> subtype, content |-> content, result |-> result]

\* resolvePhaseModel: the model used when the request names none
DefaultModel == "default"

\* The options generateBacklogModify passes to provider.executeQuery
ExecuteQueryOptions(model) ==
  [model |-> IF model = "" THEN DefaultModel ELSE model,
   maxTurns |-> 1,
   allowedTools |-> <<>>,
   readOnly |-> TRUE]

\* The text that parses into a plan (see extractJsonWithArray).
PlanText == "{changes}"

ProviderMessages ==
  { Msg("assistant", "", <<ToolUseBlock, TextBlock("a")>>, ""),
    Msg("result", "success", <<>>, PlanText),
    Msg("result", "error", <<>>, "") }

-----------------------------------------------------------------------------
(* common.ts *)

getBacklogModifyStatus == [isRunning |-> isRunning]

\* Faulty variant: tests the handle for truthiness, so null never clears it.
setRunningStateNullKept(st, running, abortController) ==
  [isRunning |-> running,
   ctrl |-> IF abortController # Undefined /\ abortController # Null
            THEN abortController ELSE st.ctrl]

\* st is the pair of module variables; the result is the pair after the call.
setRunningState(st, running, abortController) ==
  [isRunning |-> running,
   ctrl |-> IF abortController # Undefined THEN abortController ELSE st.ctrl]

getAbortController == currentAbortController

Shared == [isRunning |-> isRunning, ctrl |-> currentAbortController]

(* lib/events: emit appends to what every subscriber has been handed.  The *)
(* subscribers run inside emit, so each payload is logged with the value   *)
(* getBacklogModifyStatus() has while they run.                            *)
\* text is the payload's content (progress) or error (error); result is the
\* payload's result (complete), NoResult otherwise.
NoResult == [changes |-> <<>>, summary |-> "", dependencyUpdates |-> <<>>]

Event(type, job, text, result) ==
  [type |-> type, job |-> job, text |-> text, result |-> result,
   running |-> isRunning]

emit(b, ev) == Append(b, ev)

IsTerminal(ev) == ev.type \in {"backlog_modify_complete", "backlog_modify_error"}

-----------------------------------------------------------------------------
(* generate-modify.ts *)

\* extractJsonWithArray(response, 'changes'): <<the parsed object>>, or <<>> for null.
ParsedPlan ==
  [changes |-> << [type |-> "update", featureId |-> "f1"],
                  [type |-> "add", featureId |-> "f2"],
                  [type |-> "update", featureId |-> "f3"] >>,
   summary |-> "plan",
   dependencyUpdates |-> << "f1" >>]

\* Further texts that parse, and the objects they parse into
AddsText == "{adds}"
ParsedAdds ==
  [changes |-> << [type |-> "add", featureId |-> "f2"],
                  [type |-> "delete", featureId |-> "f1"] >>,
   summary |-> "adds",
   dependencyUpdates |-> <<>>]

OrderText == "{order}"
ParsedOrder ==
  [changes |-> << [type |-> "update", featureId |-> "f3"],
                  [type |-> "delete", featureId |-> "f2"],
                  [type |-> "update", featureId |-> "f1"],
                  [type |-> "update", featureId |-> "f3"] >>,
   summary |-> "order",
   dependencyUpdates |-> << "f2", "f3" >>]

NoneText == "{none}"
ParsedNone == [changes |-> <<>>, summary |-> "none", dependencyUpdates |-> << "f1" >>]

extractJsonWithArray(response) ==
  CASE response = PlanText -> <<ParsedPlan>>
    [] response = AddsText -> <<ParsedAdds>>
    [] response = OrderText -> <<ParsedOrder>>
    [] response = NoneText -> <<ParsedNone>>
    [] OTHER -> <<>>

\* Faulty variant: the parsed object is returned as it is.
parseModifyResponseUnfiltered(response) ==
  LET parsed == extractJsonWithArray(response) IN
  IF parsed # <<>>
  THEN parsed[1]
  ELSE [changes |-> <<>>,
        summary |-> "Failed to parse AI response",
        dependencyUpdates |-> <<>>]

parseModifyResponse(response) ==
  LET parsed == extractJsonWithArray(response) IN
  IF parsed # <<>>
  THEN [changes |-> SelectSeq(parsed[1].changes, LAMBDA c : c.type = "update"),
        summary |-> parsed[1].summary,
        dependencyUpdates |-> <<>>]
  ELSE [changes |-> <<>>,
        summary |-> "Failed to parse AI response",
        dependencyUpdates |-> <<>>]

RECURSIVE AppendTextPrepends(_, _)
\* Faulty variant: puts each text block in front of the accumulated text.
AppendTextPrepends(text, content) ==
  IF content = <<>> THEN text
  ELSE AppendTextPrepends(IF Head(content).type = "text" THEN Head(content).text \o text
                          ELSE text,
                          Tail(content))

RECURSIVE AppendText(_, _)
\* for (const block of msg.message.content) if (block.type === 'text') responseText += block.text
AppendText(text, content) ==
  IF content = <<>> THEN text
  ELSE AppendText(IF Head(content).type = "text" THEN text \o Head(content).text ELSE text,
                  Tail(content))

\* Faulty variant: takes the result when it is at least as long.
OnMessageAtLeast(responseText, msg) ==
  IF msg.type = "assistant" THEN AppendText(responseText, msg.content)
  ELSE IF msg.type = "result" /\ msg.subtype = "success" /\ msg.result # ""
       THEN IF Len(msg.result) >= Len(responseText) THEN msg.result ELSE responseText
       ELSE responseText

\* The body of the for-await loop after the abort check.
OnMessage(responseText, msg) ==
  IF msg.type = "assistant" THEN AppendText(responseText, msg.content)
  ELSE IF msg.type = "result" /\ msg.subtype = "success" /\ msg.result # ""
       THEN IF Len(msg.result) > Len(responseText) THEN msg.result ELSE responseText
       ELSE responseText

NoTask ==
  [pc |-> "none", model |-> "", responseText |-> "", n |-> 0, error |-> "",
   yielded |-> <<>>, calls |-> <<>>]

\* The task once generateBacklogModify has returned or thrown: its locals are
\* gone, the promise chain holds the rejection's error until .catch has run.
Settled(pc, error) ==
  [pc |-> pc, model |-> "", responseText |-> "", n |-> 0, error |-> error,
   yielded |-> <<>>, calls |-> <<>>]

InFlight(j) == task[j].pc \in {"getAll", "getPrompts", "getSettings", "autoLoad", "stream"}
Settling(j) == task[j].pc \in {"fulfilled", "rejected", "caught"}
Accepted(j) == task[j].pc # "none"

\* A promise reaction of some job is queued: it runs before anything else.
MicrotaskPending == \E j \in Jobs : Settling(j)

Response(op, code, success, text, running) ==
  [op |-> op, code |-> code, success |-> success, text |-> text, running |-> running]

AlreadyRunning ==
  Response("generate", 200, FALSE, "Backlog modify generation is already running", FALSE)

\* getErrorMessage of the TypeError thrown by destructuring an undefined req.body
DestructureError ==
  "Cannot destructure property 'projectPath' of 'req.body' as it is undefined."

(* Feature storage and POST /apply request bodies *)

FeatureIds == {"f1", "f2"}
Missing == "missing"
\* "done" stands for every status other than 'backlog' and 'in_progress'.
Statuses == {"backlog", "in_progress", "done"}
Stores == [FeatureIds -> Statuses \cup {Missing}]

\* change.feature: not given, or a partial feature; status "" is a partial
\* that carries no status.
Partials ==
  { [given |-> FALSE, status |-> ""],
    [given |-> TRUE, status |-> ""],
    [given |-> TRUE, status |-> "done"] }

\* The elements of plan.changes, one for every way the handler can treat a
\* change; featureId "" stands for a missing (falsy) featureId. Of a change
\* that is not an update the handler reads the type only, and of an update
\* without featureId it does not read the feature data.
Changes ==
  [type : {"add", "delete"}, featureId : {"f1"},
   feature : {[given |-> TRUE, status |-> "done"]}]
  \cup [type : {"update"}, featureId : {""}, feature : {[given |-> TRUE, status |-> ""]}]
  \cup [type : {"update"}, featureId : FeatureIds, feature : Partials]

RECURSIVE SeqsUpTo(_, _)
SeqsUpTo(S, n) ==
  IF n = 0 THEN {<<>>}
  ELSE LET shorter == SeqsUpTo(S, n - 1) IN
       shorter \cup {Append(q, x) : q \in shorter, x \in S}

\* req.body.plan: missing, without a changes array, or with one
NoPlan == [given |-> FALSE, changesGiven |-> FALSE, changes |-> <<>>]
PlanWithoutChanges == [given |-> TRUE, changesGiven |-> FALSE, changes |-> <<>>]
PlansHolding(n) ==
  {NoPlan, PlanWithoutChanges} \cup
  {[given |-> TRUE, changesGiven |-> TRUE, changes |-> cs] : cs \in SeqsUpTo(Changes, n)}

\* The requests the model keeps apart: one invocation of the handler each
ApplyReqs == 1..MaxApplies

NoApply ==
  [pc |-> "idle", plan |-> <<>>, updates |-> <<>>, i |-> 0,
   featureMap |-> [id \in FeatureIds |-> Missing], appliedChanges |-> <<>>]

ApplyResponse(code, success, error, appliedChanges) ==
  [code |-> code, success |-> success, error |-> error, appliedChanges |-> appliedChanges]

\* No response sent (yet)
NoApplyResponse == ApplyResponse(0, FALSE, "", <<>>)

StoredAtStart == [id \in FeatureIds |-> "backlog"]

ApplyIdle ==
  /\ features = StoredAtStart
  /\ apply = [r \in ApplyReqs |-> NoApply]
  /\ applyRes = [r \in ApplyReqs |-> NoApplyResponse]

(* File-system routes: no request in flight, no response sent, no path allowed *)
FsReqs == 1..MaxFsReqs
NoFsCall ==
  [route |-> "none", pc |-> "idle", path |-> <<>>, projectPath |-> <<>>,
   filename |-> "", data |-> "", calls |-> <<>>]
NoFsRequest == [calls |-> <<>>, code |-> 0]

FsIdle ==
  /\ allowedPaths = {}
  /\ fsReq = [r \in FsReqs |-> NoFsCall]
  /\ fsLast = NoFsRequest

(* WebSocket server: no client connected, nothing emitted *)
Clients == 1..MaxClients
NoClient == [readyState |-> "NONE", subscribed |-> FALSE, errored |-> FALSE, received |-> <<>>]

WsIdle ==
  /\ clients = [c \in Clients |-> NoClient]
  /\ emitted = 0

(* BacklogModifyDialog as its first render commits it: closed, nothing     *)
(* pending, the effect of that render still to run                         *)
NoPending == <<>>
DialogAtMount ==
  [open |-> FALSE, mode |-> "input", prompt |-> "", selectedChanges |-> {},
   pendingModifyResult |-> NoPending, isGeneratingModify |-> FALSE,
   effectPending |-> TRUE, generateCalls |-> 0, applyCalls |-> 0]

DialogIdle == dialog = DialogAtMount

Init ==
  /\ ApplyIdle
  /\ FsIdle
  /\ WsIdle
  /\ DialogIdle
  /\ isRunning = FALSE
  /\ currentAbortController = Null
  /\ aborted = [h \in Jobs |-> FALSE]
  /\ created = 0
  /\ task = [j \in Jobs |-> NoTask]
  /\ bus = <<>>
  /\ res = Response("none", 0, FALSE, "", FALSE)

-----------------------------------------------------------------------------
(* generateBacklogModify: the catch block followed by the finally block,   *)
(* which both run in the turn where the error is thrown.                   *)
CatchAndFinally(j, message) ==
  LET st == setRunningState(Shared, FALSE, Null) IN
  /\ bus' = emit(bus, Event("backlog_modify_error", j, message, NoResult))
  /\ isRunning' = st.isRunning
  /\ currentAbortController' = st.ctrl
  /\ task' = [task EXCEPT ![j] = Settled("rejected", message)]

\* Faulty variant: returns the result without emitting the complete event.
CompleteAndFinallySilent(j) ==
  LET st == setRunningState(Shared, FALSE, Null) IN
  /\ bus' = bus
  /\ isRunning' = st.isRunning
  /\ currentAbortController' = st.ctrl
  /\ task' = [task EXCEPT ![j] = Settled("fulfilled", "")]

\* Faulty variant: a response that does not parse is thrown as an error.
CompleteAndFinallyStrict(j) ==
  LET result == parseModifyResponse(task[j].responseText)
      st == setRunningState(Shared, FALSE, Null) IN
  IF extractJsonWithArray(task[j].responseText) = <<>>
  THEN CatchAndFinally(j, "Failed to parse AI response")
  ELSE /\ bus' = emit(bus, Event("backlog_modify_complete", j, "", result))
       /\ isRunning' = st.isRunning
       /\ currentAbortController' = st.ctrl
       /\ task' = [task EXCEPT ![j] = Settled("fulfilled", "")]

\* After the loop: parse, emit complete, return through the finally block.
CompleteAndFinally(j) ==
  LET result == parseModifyResponse(task[j].responseText)
      st == setRunningState(Shared, FALSE, Null) IN
  /\ bus' = emit(bus, Event("backlog_modify_complete", j, "", result))
  /\ isRunning' = st.isRunning
  /\ currentAbortController' = st.ctrl
  /\ task' = [task EXCEPT ![j] = Settled("fulfilled", "")]

-----------------------------------------------------------------------------
(* POST /generate *)

\* In each variant and in the handler, bodyGiven = FALSE is a request whose
\* req.body is undefined: the destructuring throws inside the try and the
\* catch answers 500.

\* Faulty variant: no single-flight check before the start.
GenerateNoCheck(bodyGiven, projectPath, prompt, model) ==
  /\ UNCHANGED exceptJobVars
  /\ ~MicrotaskPending
  /\ IF ~bodyGiven
     THEN /\ res' = Response("generate", 500, FALSE, DestructureError, FALSE)
          /\ UNCHANGED <<isRunning, currentAbortController, aborted, created, task, bus>>
     ELSE IF projectPath = ""
     THEN /\ res' = Response("generate", 400, FALSE, "projectPath required", FALSE)
          /\ UNCHANGED <<isRunning, currentAbortController, aborted, created, task, bus>>
     ELSE IF prompt = ""
     THEN /\ res' = Response("generate", 400, FALSE, "prompt required", FALSE)
          /\ UNCHANGED <<isRunning, currentAbortController, aborted, created, task, bus>>
     ELSE /\ created < MaxJobs
          /\ LET abortController == created + 1
                 st1 == setRunningState(Shared, TRUE, Undefined)
                 st2 == setRunningState(st1, TRUE, abortController) IN
             /\ created' = abortController
             /\ isRunning' = st2.isRunning
             /\ currentAbortController' = st2.ctrl
             /\ task' = [task EXCEPT ![abortController] =
                           [pc |-> "getAll", model |-> model, responseText |-> "",
                            n |-> 0, error |-> "", yielded |-> <<>>, calls |-> <<>>]]
             /\ res' = Response("generate", 200, TRUE, "", FALSE)
             /\ UNCHANGED <<aborted, bus>>

\* Faulty variant: the running flag is not raised when the start is accepted.
GenerateNoSet(bodyGiven, projectPath, prompt, model) ==
  /\ UNCHANGED exceptJobVars
  /\ ~MicrotaskPending
  /\ IF ~bodyGiven
     THEN /\ res' = Response("generate", 500, FALSE, DestructureError, FALSE)
          /\ UNCHANGED <<isRunning, currentAbortController, aborted, created, task, bus>>
     ELSE IF projectPath = ""
     THEN /\ res' = Response("generate", 400, FALSE, "projectPath required", FALSE)
          /\ UNCHANGED <<isRunning, currentAbortController, aborted, created, task, bus>>
     ELSE IF prompt = ""
     THEN /\ res' = Response("generate", 400, FALSE, "prompt required", FALSE)
          /\ UNCHANGED <<isRunning, currentAbortController, aborted, created, task, bus>>
     ELSE IF getBacklogModifyStatus.isRunning
     THEN /\ res' = AlreadyRunning
          /\ UNCHANGED <<isRunning, currentAbortController, aborted, created, task, bus>>
     ELSE /\ created < MaxJobs
          /\ LET abortController == created + 1 IN
             /\ created' = abortController
             /\ isRunning' = isRunning
             /\ currentAbortController' = abortController
             /\ task' = [task EXCEPT ![abortController] =
                           [pc |-> "getAll", model |-> model, responseText |-> "",
                            n |-> 0, error |-> "", yielded |-> <<>>, calls |-> <<>>]]
             /\ res' = Response("generate", 200, TRUE, "", FALSE)
             /\ UNCHANGED <<aborted, bus>>


\* Faulty variant: the new controller is never stored.
GenerateStaleController(bodyGiven, projectPath, prompt, model) ==
  /\ UNCHANGED exceptJobVars
  /\ ~MicrotaskPending
  /\ IF ~bodyGiven
     THEN /\ res' = Response("generate", 500, FALSE, DestructureError, FALSE)
          /\ UNCHANGED <<isRunning, currentAbortController, aborted, created, task, bus>>
     ELSE IF projectPath = ""
     THEN /\ res' = Response("generate", 400, FALSE, "projectPath required", FALSE)
          /\ UNCHANGED <<isRunning, currentAbortController, aborted, created, task, bus>>
     ELSE IF prompt = ""
     THEN /\ res' = Response("generate", 400, FALSE, "prompt required", FALSE)
          /\ UNCHANGED <<isRunning, currentAbortController, aborted, created, task, bus>>
     ELSE IF getBacklogModifyStatus.isRunning
     THEN /\ res' = AlreadyRunning
          /\ UNCHANGED <<isRunning, currentAbortController, aborted, created, task, bus>>
     ELSE /\ created < MaxJobs
          /\ LET abortController == created + 1
                 st1 == setRunningState(Shared, TRUE, Undefined) IN
             /\ created' = abortController
             /\ isRunning' = st1.isRunning
             /\ currentAbortController' = st1.ctrl
             /\ task' = [task EXCEPT ![abortController] =
                           [pc |-> "getAll", model |-> model, responseText |-> "",
                            n |-> 0, error |-> "", yielded |-> <<>>, calls |-> <<>>]]
             /\ res' = Response("generate", 200, TRUE, "", FALSE)
             /\ UNCHANGED <<aborted, bus>>


\* The handler up to the response: everything it does is synchronous.
Generate(bodyGiven, projectPath, prompt, model) ==
  /\ UNCHANGED exceptJobVars
  /\ ~MicrotaskPending
  /\ IF ~bodyGiven
     THEN /\ res' = Response("generate", 500, FALSE, DestructureError, FALSE)
          /\ UNCHANGED <<isRunning, currentAbortController, aborted, created, task, bus>>
     ELSE IF projectPath = ""
     THEN /\ res' = Response("generate", 400, FALSE, "projectPath required", FALSE)
          /\ UNCHANGED <<isRunning, currentAbortController, aborted, created, task, bus>>
     ELSE IF prompt = ""
     THEN /\ res' = Response("generate", 400, FALSE, "prompt required", FALSE)
          /\ UNCHANGED <<isRunning, currentAbortController, aborted, created, task, bus>>
     ELSE IF getBacklogModifyStatus.isRunning
     THEN /\ res' = AlreadyRunning
          /\ UNCHANGED <<isRunning, currentAbortController, aborted, created, task, bus>>
     ELSE /\ created < MaxJobs
          /\ LET abortController == created + 1
                 st1 == setRunningState(Shared, TRUE, Undefined)
                 st2 == setRunningState(st1, TRUE, abortController) IN
             /\ created' = abortController
             /\ isRunning' = st2.isRunning
             /\ currentAbortController' = st2.ctrl
             \* generateBacklogModify runs up to its first await: featureLoader.getAll
             /\ task' = [task EXCEPT ![abortController] =
                           [pc |-> "getAll", model |-> model, responseText |-> "",
                            n |-> 0, error |-> "", yielded |-> <<>>, calls |-> <<>>]]
             /\ res' = Response("generate", 200, TRUE, "", FALSE)
             /\ UNCHANGED <<aborted, bus>>

(* POST /stop *)

\* Faulty variant: aborts the controller but leaves the running state alone.
StopKeepsRunning ==
  /\ UNCHANGED exceptJobVars
  /\ ~MicrotaskPending
  /\ LET abortController == getAbortController IN
     IF abortController # Null
     THEN /\ aborted' = [aborted EXCEPT ![abortController] = TRUE]
          /\ res' = Response("stop", 200, TRUE, "Generation stopped", FALSE)
          /\ UNCHANGED <<isRunning, currentAbortController, created, task, bus>>
     ELSE /\ res' = Response("stop", 200, TRUE, "No generation running", FALSE)
          /\ UNCHANGED <<isRunning, currentAbortController, aborted, created, task, bus>>

\* Faulty variant: clears the flag but not the stored controller.
StopClearsFlagOnly ==
  /\ UNCHANGED exceptJobVars
  /\ ~MicrotaskPending
  /\ LET abortController == getAbortController IN
     IF abortController # Null
     THEN /\ aborted' = [aborted EXCEPT ![abortController] = TRUE]
          /\ isRunning' = setRunningState(Shared, FALSE, Undefined).isRunning
          /\ currentAbortController' = setRunningState(Shared, FALSE, Undefined).ctrl
          /\ res' = Response("stop", 200, TRUE, "Generation stopped", FALSE)
          /\ UNCHANGED <<created, task, bus>>
     ELSE /\ res' = Response("stop", 200, TRUE, "No generation running", FALSE)
          /\ UNCHANGED <<isRunning, currentAbortController, aborted, created, task, bus>>

Stop ==
  /\ UNCHANGED exceptJobVars
  /\ ~MicrotaskPending
  /\ LET abortController == getAbortController IN
     IF abortController # Null
     THEN LET st == setRunningState(Shared, FALSE, Null) IN
          /\ aborted' = [aborted EXCEPT ![abortController] = TRUE]
          /\ isRunning' = st.isRunning
          /\ currentAbortController' = st.ctrl
          /\ res' = Response("stop", 200, TRUE, "Generation stopped", FALSE)
          /\ UNCHANGED <<created, task, bus>>
     ELSE /\ res' = Response("stop", 200, TRUE, "No generation running", FALSE)
          /\ UNCHANGED <<isRunning, currentAbortController, aborted, created, task, bus>>

(* GET /status *)

\* Faulty variant: answers with the flag's value at module load.
StatusStale ==
  /\ UNCHANGED exceptJobVars
  /\ ~MicrotaskPending
  /\ res' = Response("status", 200, TRUE, "", FALSE)
  /\ UNCHANGED <<isRunning, currentAbortController, aborted, created, task, bus>>

Status ==
  /\ UNCHANGED exceptJobVars
  /\ ~MicrotaskPending
  /\ res' = Response("status", 200, TRUE, "", getBacklogModifyStatus.isRunning)
  /\ UNCHANGED <<isRunning, currentAbortController, aborted, created, task, bus>>

-----------------------------------------------------------------------------
(* generateBacklogModify, one action per await *)

Outcomes == {"ok", "throw"}
ResolveOutcomes == {"ok", "throw", "noProvider"}

\* await featureLoader.getAll(projectPath), then the first progress event
GetAllSettles(j, outcome) ==
  /\ UNCHANGED exceptJobVars
  /\ ~MicrotaskPending
  /\ task[j].pc = "getAll"
  /\ IF outcome = "ok"
     THEN /\ bus' = emit(bus, Event("backlog_modify_progress", j, "Loaded features", NoResult))
          /\ task' = [task EXCEPT ![j].pc = "getPrompts"]
          /\ UNCHANGED <<isRunning, currentAbortController>>
     ELSE CatchAndFinally(j, "failed")
  /\ UNCHANGED <<aborted, created, res>>

\* await getPromptCustomization(...), the second progress event, and, when
\* the request names a model, ProviderFactory.getProviderForModel(model)
GetPromptsSettles(j, outcome) ==
  /\ UNCHANGED exceptJobVars
  /\ ~MicrotaskPending
  /\ task[j].pc = "getPrompts"
  /\ outcome = "noProvider" => task[j].model # ""
  /\ IF outcome = "throw"
     THEN CatchAndFinally(j, "failed")
     ELSE IF outcome = "noProvider"
     THEN LET st == setRunningState(Shared, FALSE, Null) IN
          /\ bus' = emit(emit(bus, Event("backlog_modify_progress", j, "Generating", NoResult)),
                         Event("backlog_modify_error", j, "failed", NoResult))
          /\ isRunning' = st.isRunning
          /\ currentAbortController' = st.ctrl
          /\ task' = [task EXCEPT ![j] = Settled("rejected", "failed")]
     ELSE /\ bus' = emit(bus, Event("backlog_modify_progress", j, "Generating", NoResult))
          /\ task' = [task EXCEPT ![j].pc =
                        IF task[j].model = "" THEN "getSettings" ELSE "autoLoad"]
          /\ UNCHANGED <<isRunning, currentAbortController>>
  /\ UNCHANGED <<aborted, created, res>>

\* await settingsService?.getGlobalSettings(), resolvePhaseModel, getProviderForModel
GetSettingsSettles(j, outcome) ==
  /\ UNCHANGED exceptJobVars
  /\ ~MicrotaskPending
  /\ task[j].pc = "getSettings"
  /\ IF outcome = "ok"
     THEN /\ task' = [task EXCEPT ![j].pc = "autoLoad"]
          /\ UNCHANGED <<isRunning, currentAbortController, bus>>
     ELSE CatchAndFinally(j, IF outcome = "throw" THEN "failed" ELSE "failed")
  /\ UNCHANGED <<aborted, created, res>>

\* await getAutoLoadClaudeMdSetting(...), then provider.executeQuery(...)
AutoLoadSettles(j, outcome) ==
  /\ UNCHANGED exceptJobVars
  /\ ~MicrotaskPending
  /\ task[j].pc = "autoLoad"
  /\ IF outcome = "ok"
     THEN /\ task' = [task EXCEPT ![j].pc = "stream",
                                  ![j].calls = Append(@, ExecuteQueryOptions(task[j].model))]
          /\ UNCHANGED <<isRunning, currentAbortController, bus>>
     ELSE CatchAndFinally(j, "failed")
  /\ UNCHANGED <<aborted, created, res>>

\* for await (const msg of stream): the stream yields msg
StreamYields(j, msg) ==
  /\ UNCHANGED exceptJobVars
  /\ ~MicrotaskPending
  /\ task[j].pc = "stream"
  /\ task[j].n < MaxMsgs
  /\ IF aborted[j]
     THEN CatchAndFinally(j, "Generation aborted")
     ELSE /\ task' = [task EXCEPT ![j].responseText = OnMessage(@, msg),
                                  ![j].n = @ + 1,
                                  ![j].yielded = Append(@, msg)]
          /\ UNCHANGED <<isRunning, currentAbortController, bus>>
  /\ UNCHANGED <<aborted, created, res>>

\* the stream is exhausted
StreamEnds(j) ==
  /\ UNCHANGED exceptJobVars
  /\ ~MicrotaskPending
  /\ task[j].pc = "stream"
  /\ CompleteAndFinally(j)
  /\ UNCHANGED <<aborted, created, res>>

\* the stream's iterator rejects
StreamThrows(j) ==
  /\ UNCHANGED exceptJobVars
  /\ ~MicrotaskPending
  /\ task[j].pc = "stream"
  /\ CatchAndFinally(j, "failed")
  /\ UNCHANGED <<aborted, created, res>>

(* The promise chain of the /generate handler *)

\* .catch((error) => { logError(...); events.emit(... backlog_modify_error ...) })
CatchReaction(j) ==
  /\ UNCHANGED exceptJobVars
  /\ task[j].pc = "rejected"
  /\ bus' = emit(bus, Event("backlog_modify_error", j, task[j].error, NoResult))
  /\ task' = [task EXCEPT ![j] = Settled("caught", "")]
  /\ UNCHANGED <<isRunning, currentAbortController, aborted, created, res>>

\* .finally(() => { setRunningState(false, null) })
FinallyReaction(j) ==
  /\ UNCHANGED exceptJobVars
  /\ task[j].pc \in {"fulfilled", "caught"}
  /\ LET st == setRunningState(Shared, FALSE, Null) IN
     /\ isRunning' = st.isRunning
     /\ currentAbortController' = st.ctrl
  /\ task' = [task EXCEPT ![j] = Settled("done", "")]
  /\ UNCHANGED <<aborted, created, bus, res>>

TaskStep(j) ==
  \/ \E o \in Outcomes : GetAllSettles(j, o)
  \/ \E o \in ResolveOutcomes : GetPromptsSettles(j, o)
  \/ \E o \in ResolveOutcomes : GetSettingsSettles(j, o)
  \/ \E o \in Outcomes : AutoLoadSettles(j, o)
  \/ \E m \in ProviderMessages : StreamYields(j, m)
  \/ StreamEnds(j)
  \/ StreamThrows(j)
  \/ CatchReaction(j)
  \/ FinallyReaction(j)

Next ==
  \/ \E b \in BOOLEAN, pp \in ProjectPaths, pr \in Prompts, m \in Models :
       Generate(b, pp, pr, m)
  \/ Stop
  \/ Status
  \/ \E j \in Jobs, o \in Outcomes : GetAllSettles(j, o)
  \/ \E j \in Jobs, o \in ResolveOutcomes : GetPromptsSettles(j, o)
  \/ \E j \in Jobs, o \in ResolveOutcomes : GetSettingsSettles(j, o)
  \/ \E j \in Jobs, o \in Outcomes : AutoLoadSettles(j, o)
  \/ \E j \in Jobs, m \in ProviderMessages : StreamYields(j, m)
  \/ \E j \in Jobs : StreamEnds(j)
  \/ \E j \in Jobs : StreamThrows(j)
  \/ \E j \in Jobs : CatchReaction(j)
  \/ \E j \in Jobs : FinallyReaction(j)

Spec == Init /\ [][Next]_vars

\* Every awaited call settles and the event loop runs every queued continuation.
FairSpec == Spec /\ \A j \in Jobs : WF_vars(TaskStep(j))

-----------------------------------------------------------------------------
(* One generation seen from the provider loop: the state reached by an     *)
(* accepted start whose awaits all resolved (provider.executeQuery has     *)
(* just been called), continued with a provider that can yield any of      *)
(* LoopMessages.                                                           *)

LoopMessages ==
  ProviderMessages \cup
  { Msg("assistant", "", <<TextBlock("a"), ToolUseBlock, TextBlock("b")>>, ""),
    Msg("assistant", "", <<TextBlock("b")>>, ""),
    Msg("result", "success", <<>>, "x"),
    Msg("result", "success", <<>>, "xyz"),
    Msg("result", "success", <<>>, ""),
    Msg("result", "success", <<>>, AddsText),
    Msg("result", "success", <<>>, OrderText),
    Msg("result", "success", <<>>, NoneText),
    Msg("system", "", <<>>, "") }

LoopInit ==
  /\ ApplyIdle
  /\ FsIdle
  /\ WsIdle
  /\ DialogIdle
  /\ isRunning = TRUE
  /\ currentAbortController = 1
  /\ aborted = [h \in Jobs |-> FALSE]
  /\ created = 1
  /\ \E m \in Models :
       task = [j \in Jobs |->
                 IF j = 1
                 THEN [pc |-> "stream", model |-> m, responseText |-> "", n |-> 0,
                       error |-> "", yielded |-> <<>>,
                       calls |-> <<ExecuteQueryOptions(m)>>]
                 ELSE NoTask]
  /\ bus = << [type |-> "backlog_modify_progress", job |-> 1, text |-> "Loaded features",
               result |-> NoResult, running |-> TRUE],
              [type |-> "backlog_modify_progress", job |-> 1, text |-> "Generating",
               result |-> NoResult, running |-> TRUE] >>
  /\ res = Response("generate", 200, TRUE, "", FALSE)

LoopNext ==
  \/ \E j \in Jobs, m \in LoopMessages : StreamYields(j, m)
  \/ \E j \in Jobs : StreamEnds(j)
  \/ \E j \in Jobs : StreamThrows(j)
  \/ \E j \in Jobs : CatchReaction(j)
  \/ \E j \in Jobs : FinallyReaction(j)
  \/ Stop

LoopSpec == LoopInit /\ [][LoopNext]_vars

\* The state LoopSpec starts from is a state of Spec.
LoopInitReached == ~LoopInit

-----------------------------------------------------------------------------
(* POST /apply. The handler shares no state with the generation handlers   *)
(* and keeps none of its own between requests: it reads and writes feature *)
(* storage only. Every request is its own invocation of the async handler, *)
(* so a request can arrive while others are suspended at an await; each    *)
(* await of the handler ends a step.                                       *)

\* featureLoader.getAll: the stored features
FeatureLoaderGetAll(stored) == stored

\* featureLoader.update: the stored feature overlaid with the partial one
FeatureLoaderUpdate(existing, partial) ==
  IF partial.status = "" THEN existing ELSE partial.status

IsUpdate(c) == c.type = "update"

\* Faulty variant: every change of the plan is processed.
updatesUnfiltered(changes) == changes

\* plan.changes.filter((c) => c.type === 'update')
updates(changes) == SelectSeq(changes, IsUpdate)

\* `updated:${change.featureId}`
UpdatedTag(featureId) ==
  CASE featureId = "f1" -> "updated:f1"
    [] featureId = "f2" -> "updated:f2"
    [] OTHER -> "updated:"

\* The loop body reaches a `continue` for this change.
Skipped(change, featureMap) ==
  \/ change.featureId = ""
  \/ ~change.feature.given
  \/ featureMap[change.featureId] = Missing
  \/ featureMap[change.featureId] \notin {"backlog", "in_progress"}

\* The position of the first change from i on that is not skipped
RECURSIVE NextCall(_, _, _)
NextCall(ups, i, featureMap) ==
  IF i > Len(ups) THEN i
  ELSE IF Skipped(ups[i], featureMap) THEN NextCall(ups, i + 1, featureMap)
  ELSE i

\* The for loop of request r from position i up to its next await, or past
\* its end up to res.json
RunLoop(r, ap, i) ==
  LET n == NextCall(ap.updates, i, ap.featureMap) IN
  IF n > Len(ap.updates)
  THEN /\ apply' = [apply EXCEPT ![r] = NoApply]
       /\ applyRes' = [applyRes EXCEPT ![r] = ApplyResponse(200, TRUE, "", ap.appliedChanges)]
  ELSE /\ apply' = [apply EXCEPT ![r] = [ap EXCEPT !.pc = "update", !.i = n]]
       /\ UNCHANGED applyRes

\* The handler's outer catch: res.status(500)
ApplyFails(r) ==
  /\ apply' = [apply EXCEPT ![r] = NoApply]
  /\ applyRes' = [applyRes EXCEPT ![r] = ApplyResponse(500, FALSE, "failed", <<>>)]

ApplyInFlight(r) == apply[r].pc # "idle"

\* The changes held by the plans of the requests in flight
RECURSIVE ChangesInFlight(_)
ChangesInFlight(n) ==
  IF n = 0 THEN 0 ELSE Len(apply[n].plan) + ChangesInFlight(n - 1)

\* The request a new invocation of the handler becomes
NewApplyReq ==
  CHOOSE r \in ApplyReqs :
    /\ ~ApplyInFlight(r)
    /\ \A q \in ApplyReqs : q < r => ApplyInFlight(q)

\* The handler up to its first await, or up to the response it sends at once.
\* bodyGiven = FALSE is a request whose req.body is undefined: the
\* destructuring throws inside the try.
Apply(bodyGiven, projectPath, plan) ==
  /\ ~MicrotaskPending
  /\ \E r \in ApplyReqs : ~ApplyInFlight(r)
  /\ LET r == NewApplyReq IN
     IF ~bodyGiven
     THEN /\ applyRes' = [applyRes EXCEPT ![r] = ApplyResponse(500, FALSE, "failed", <<>>)]
          /\ UNCHANGED apply
     ELSE IF projectPath = ""
     THEN /\ applyRes' = [applyRes EXCEPT ![r] =
                            ApplyResponse(400, FALSE, "projectPath required", <<>>)]
          /\ UNCHANGED apply
     ELSE IF ~plan.given \/ ~plan.changesGiven
     THEN /\ applyRes' = [applyRes EXCEPT ![r] =
                            ApplyResponse(400, FALSE, "plan with changes required", <<>>)]
          /\ UNCHANGED apply
     ELSE /\ ChangesInFlight(MaxApplies) + Len(plan.changes) <= MaxPlan
          /\ apply' = [apply EXCEPT ![r] =
                         [NoApply EXCEPT !.pc = "getAll", !.plan = plan.changes]]
          /\ applyRes' = [applyRes EXCEPT ![r] = NoApplyResponse]
  /\ UNCHANGED features
  /\ UNCHANGED exceptApplyVars

\* await featureLoader.getAll(projectPath), then the loop up to its first await
ApplyGetAllSettles(r, outcome) ==
  /\ ~MicrotaskPending
  /\ apply[r].pc = "getAll"
  /\ IF outcome = "ok"
     THEN RunLoop(r, [apply[r] EXCEPT !.featureMap = FeatureLoaderGetAll(features),
                                      !.updates = updates(apply[r].plan)], 1)
     ELSE ApplyFails(r)
  /\ UNCHANGED features
  /\ UNCHANGED exceptApplyVars

\* Faulty variant: a failed storage update ends the request with a 500.
ApplyUpdateSettlesStopsOnFailure(r, outcome) ==
  /\ ~MicrotaskPending
  /\ apply[r].pc = "update"
  /\ LET change == apply[r].updates[apply[r].i]
         updated == FeatureLoaderUpdate(features[change.featureId], change.feature) IN
     IF outcome = "ok"
     THEN /\ features[change.featureId] # Missing
          /\ features' = [features EXCEPT ![change.featureId] = updated]
          /\ RunLoop(r, [apply[r] EXCEPT
                           !.appliedChanges = Append(@, UpdatedTag(change.featureId)),
                           !.featureMap[change.featureId] = updated],
                     apply[r].i + 1)
     ELSE /\ UNCHANGED features
          /\ ApplyFails(r)
  /\ UNCHANGED exceptApplyVars

\* await featureLoader.update(projectPath, change.featureId, change.feature),
\* then the loop up to its next await
ApplyUpdateSettles(r, outcome) ==
  /\ ~MicrotaskPending
  /\ apply[r].pc = "update"
  /\ LET change == apply[r].updates[apply[r].i]
         updated == FeatureLoaderUpdate(features[change.featureId], change.feature) IN
     IF outcome = "ok"
     THEN /\ features[change.featureId] # Missing
          /\ features' = [features EXCEPT ![change.featureId] = updated]
          /\ RunLoop(r, [apply[r] EXCEPT
                           !.appliedChanges = Append(@, UpdatedTag(change.featureId)),
                           !.featureMap[change.featureId] = updated],
                     apply[r].i + 1)
     ELSE /\ UNCHANGED features
          /\ RunLoop(r, apply[r], apply[r].i + 1)
  /\ UNCHANGED exceptApplyVars

ApplyInit ==
  /\ FsIdle
  /\ WsIdle
  /\ DialogIdle
  /\ features \in Stores
  /\ apply = [r \in ApplyReqs |-> NoApply]
  /\ applyRes = [r \in ApplyReqs |-> NoApplyResponse]
  /\ isRunning = FALSE
  /\ currentAbortController = Null
  /\ aborted = [h \in Jobs |-> FALSE]
  /\ created = 0
  /\ task = [j \in Jobs |-> NoTask]
  /\ bus = <<>>
  /\ res = Response("none", 0, FALSE, "", FALSE)

ApplyNext ==
  \/ \E b \in BOOLEAN, pp \in ProjectPaths :
       \* the plan matters only to a request that passes the first two tests
       \E plan \in (IF b /\ pp # ""
                     THEN PlansHolding(MaxPlan - ChangesInFlight(MaxApplies))
                     ELSE {NoPlan}) : Apply(b, pp, plan)
  \/ \E r \in ApplyReqs, o \in Outcomes : ApplyGetAllSettles(r, o)
  \/ \E r \in ApplyReqs, o \in Outcomes : ApplyUpdateSettles(r, o)

ApplySpec == ApplyInit /\ [][ApplyNext]_vars

-----------------------------------------------------------------------------
(* File-system and workspace routes. A path is the sequence of its         *)
(* segments below the root; <<>> stands for a missing (falsy) path and a   *)
(* leading "." marks a path relative to the working directory. Every       *)
(* handler is async and awaits each of its file operations: the call is    *)
(* made in one step and its settling is a later step, and other requests   *)
(* run in between.                                                         *)

\* A truthy value of a body or query field that is not a string (a number,
\* an array, an object): as a scalar and as a path
NonString == "[non-string]"
NonStringPath == <<NonString>>

FsPaths ==
  { <<>>, NonStringPath, <<"proj">>, <<"proj", "a.txt">>,
    <<"proj", "..", "etc", "passwd">> }
ProjectDirs == { <<>>, NonStringPath, <<"proj">> }
ImagePaths ==
  { <<>>, NonStringPath, <<".", ".automaker", "images", "img.png">>, <<"etc", "passwd">> }
Filenames == {"", NonString, "img.png", "shot"}
\* req.body.data: missing, not a string, or base64 text
ImageData == {"", NonString, "aGk="}
\* Date.now()
Timestamps == {17}
WorkspaceDir == <<"ws">>
\* process.env.WORKSPACE_DIR: unset, or set
WorkspaceDirs == { <<>>, WorkspaceDir }
\* The names of the visible directories fs.readdir finds in the workspace
SubdirNames == {"p1"}
\* What fs.stat finds at a path. The requests themselves and the world
\* outside create and remove files and directories, so each of the three can
\* be found at any path.
StatKinds == {"dir", "file", "none"}

\* path.resolve / path.join: ".." segments are folded away
RECURSIVE resolveFrom(_, _)
resolveFrom(done, rest) ==
  IF rest = <<>> THEN done
  ELSE IF Head(rest) = ".."
       THEN resolveFrom(IF done = <<>> THEN <<>> ELSE SubSeq(done, 1, Len(done) - 1), Tail(rest))
       ELSE resolveFrom(Append(done, Head(rest)), Tail(rest))

resolve(p) == resolveFrom(<<>>, p)

\* path.isAbsolute, on a string
isAbsolute(p) == Head(p) # "."

\* path.join(base, p)
join(base, p) == resolve(base \o (IF isAbsolute(p) THEN p ELSE Tail(p)))

dirname(p) == IF p = <<>> THEN <<>> ELSE SubSeq(p, 1, Len(p) - 1)

\* `${baseName}-${timestamp}${ext}` with ext = path.extname(filename) || ".png"
\* and baseName = path.basename(filename, ext)
uniqueFilename(filename, timestamp) ==
  CASE filename = "img.png" /\ timestamp = 17 -> "img-17.png"
    [] filename = "shot" /\ timestamp = 17 -> "shot-17.png"

IsInside(p, root) == Len(root) <= Len(p) /\ SubSeq(p, 1, Len(root)) = root

\* lib/security
isPathAllowed(p) == \E a \in allowedPaths : IsInside(resolve(p), a)
addAllowedPath(allowed, p) == allowed \cup {resolve(p)}
\* validatePath(p) returns resolve(p), or throws when the path is not allowed;
\* path.resolve throws a TypeError on a value that is not a string
validatePathThrows(p) == p = NonStringPath \/ ~isPathAllowed(p)

\* What a response shows of its request: the file operations the request
\* called, and the status code
FsRequest(calls, code) == [calls |-> calls, code |-> code]

FsOp(op, path) == [op |-> op, path |-> path]

\* The request a new invocation of a handler becomes
NewFsReq ==
  CHOOSE r \in FsReqs :
    /\ fsReq[r].pc = "idle"
    /\ \A q \in FsReqs : q < r => fsReq[q].pc # "idle"

\* A handler answers in the step in which the request arrives.
FsRespondsAtOnce(code) ==
  /\ fsLast' = FsRequest(<<>>, code)
  /\ UNCHANGED fsReq

\* await fs.<op>(path): the call is made and the handler is suspended
FsAwaits(r, req, op, path) ==
  /\ fsReq' = [fsReq EXCEPT ![r] = [req EXCEPT !.pc = op, !.calls = Append(@, FsOp(op, path))]]
  /\ fsLast' = NoFsRequest

\* A handler reaches its first await.
FsStarts(req, op, path) ==
  /\ \E r \in FsReqs : fsReq[r].pc = "idle"
  /\ FsAwaits(NewFsReq, req, op, path)

\* res.json / res.status(code).json after an await: the request is over
FsResponds(r, code) ==
  /\ fsLast' = FsRequest(fsReq[r].calls, code)
  /\ fsReq' = [fsReq EXCEPT ![r] = NoFsCall]

GuardedRoutes == {"read", "write", "mkdir", "readdir", "stat", "delete"}

\* The file operation a guarded route calls first
GuardedOp(route) ==
  CASE route = "read" -> "readFile"
    [] route = "write" -> "mkdir"
    [] route = "mkdir" -> "mkdir"
    [] route = "readdir" -> "readdir"
    [] route = "stat" -> "stat"
    [] route = "delete" -> "rm"

\* In every handler below bodyGiven = FALSE is a request whose req.body (for
\* GET /image: req.query) is undefined: the destructuring throws inside the
\* try and the catch answers 500.

\* POST /read, /write, /mkdir, /readdir, /stat, /delete up to the first await
FsGuarded(route, bodyGiven, filePath) ==
  /\ IF ~bodyGiven THEN FsRespondsAtOnce(500)
     ELSE IF filePath = <<>> THEN FsRespondsAtOnce(400)
     ELSE IF validatePathThrows(filePath) THEN FsRespondsAtOnce(500)
     ELSE LET resolvedPath == resolve(filePath) IN
          FsStarts([NoFsCall EXCEPT !.route = route, !.path = resolvedPath],
                   GuardedOp(route),
                   \* write: fs.mkdir(path.dirname(resolvedPath), {recursive: true})
                   IF route = "write" THEN dirname(resolvedPath) ELSE resolvedPath)
  /\ UNCHANGED allowedPaths
  /\ UNCHANGED exceptFsVars

\* The awaited file operation of a guarded route settles.
FsGuardedSettles(r, outcome) ==
  /\ fsReq[r].route \in GuardedRoutes
  /\ IF outcome = "throw" THEN FsResponds(r, 500)
     ELSE IF fsReq[r].route = "write" /\ fsReq[r].pc = "mkdir"
     THEN FsAwaits(r, fsReq[r], "writeFile", fsReq[r].path)
     ELSE FsResponds(r, 200)
  /\ UNCHANGED allowedPaths
  /\ UNCHANGED exceptFsVars

\* POST /exists up to await fs.access on the resolved path, allowed or not
FsExists(bodyGiven, filePath) ==
  /\ IF ~bodyGiven THEN FsRespondsAtOnce(500)
     ELSE IF filePath = <<>> THEN FsRespondsAtOnce(400)
     \* path.resolve throws
     ELSE IF filePath = NonStringPath THEN FsRespondsAtOnce(500)
     ELSE FsStarts([NoFsCall EXCEPT !.route = "exists", !.path = resolve(filePath)],
                   "access", resolve(filePath))
  /\ UNCHANGED allowedPaths
  /\ UNCHANGED exceptFsVars

\* fs.access settles: exists true or false, 200 either way
FsExistsSettles(r) ==
  /\ fsReq[r].route = "exists"
  /\ FsResponds(r, 200)
  /\ UNCHANGED allowedPaths
  /\ UNCHANGED exceptFsVars

\* POST /validate-path up to await fs.stat
FsValidatePath(bodyGiven, filePath) ==
  /\ IF ~bodyGiven THEN FsRespondsAtOnce(500)
     ELSE IF filePath = <<>> THEN FsRespondsAtOnce(400)
     \* path.resolve throws
     ELSE IF filePath = NonStringPath THEN FsRespondsAtOnce(500)
     ELSE FsStarts([NoFsCall EXCEPT !.route = "validate-path", !.path = resolve(filePath)],
                   "stat", resolve(filePath))
  /\ UNCHANGED allowedPaths
  /\ UNCHANGED exceptFsVars

\* fs.stat settles: a directory, something else, or nothing there
FsValidatePathSettles(r, kind) ==
  /\ fsReq[r].route = "validate-path"
  /\ IF kind = "dir"
     THEN /\ allowedPaths' = addAllowedPath(allowedPaths, fsReq[r].path)
          /\ FsResponds(r, 200)
     ELSE /\ FsResponds(r, 400)
          /\ UNCHANGED allowedPaths
  /\ UNCHANGED exceptFsVars

\* POST /save-image up to await fs.mkdir(imagesDir)
FsSaveImage(bodyGiven, data, filename, projectPath) ==
  /\ IF ~bodyGiven THEN FsRespondsAtOnce(500)
     ELSE IF data = "" \/ filename = "" \/ projectPath = <<>>
     THEN FsRespondsAtOnce(400)
     \* path.join throws
     ELSE IF projectPath = NonStringPath THEN FsRespondsAtOnce(500)
     ELSE LET imagesDir == join(projectPath, <<".automaker", "images">>) IN
          FsStarts([NoFsCall EXCEPT !.route = "save-image", !.path = imagesDir,
                                    !.projectPath = projectPath, !.filename = filename,
                                    !.data = data],
                   "mkdir", imagesDir)
  /\ UNCHANGED allowedPaths
  /\ UNCHANGED exceptFsVars

\* fs.mkdir settles (up to await fs.writeFile), or fs.writeFile settles
FsSaveImageSettles(r, outcome, timestamp) ==
  /\ fsReq[r].route = "save-image"
  /\ IF outcome = "throw"
     THEN /\ FsResponds(r, 500)
          /\ UNCHANGED allowedPaths
     ELSE IF fsReq[r].pc = "mkdir"
     THEN \* data.replace or path.extname(filename) throws
          IF fsReq[r].data = NonString \/ fsReq[r].filename = NonString
          THEN /\ FsResponds(r, 500)
               /\ UNCHANGED allowedPaths
          ELSE LET filePath ==
                     Append(fsReq[r].path, uniqueFilename(fsReq[r].filename, timestamp)) IN
               /\ FsAwaits(r, [fsReq[r] EXCEPT !.path = filePath], "writeFile", filePath)
               /\ UNCHANGED allowedPaths
     ELSE /\ allowedPaths' = addAllowedPath(allowedPaths, fsReq[r].projectPath)
          /\ FsResponds(r, 200)
  /\ UNCHANGED exceptFsVars

\* GET /image up to await fs.access(fullPath)
FsImage(queryGiven, imagePath, projectPath) ==
  /\ IF ~queryGiven THEN FsRespondsAtOnce(500)
     ELSE IF imagePath = <<>> THEN FsRespondsAtOnce(400)
     \* path.isAbsolute throws, or path.join throws
     ELSE IF imagePath = NonStringPath
             \/ (~isAbsolute(imagePath) /\ projectPath = NonStringPath)
     THEN FsRespondsAtOnce(500)
     ELSE LET fullPath == IF isAbsolute(imagePath) THEN imagePath
                          ELSE IF projectPath # <<>> THEN join(projectPath, imagePath)
                          ELSE imagePath IN
          FsStarts([NoFsCall EXCEPT !.route = "image", !.path = fullPath], "access", fullPath)
  /\ UNCHANGED allowedPaths
  /\ UNCHANGED exceptFsVars

\* fs.access settles (up to await fs.readFile), or fs.readFile settles
FsImageSettles(r, outcome) ==
  /\ fsReq[r].route = "image"
  /\ IF fsReq[r].pc = "access"
     THEN IF outcome = "throw" THEN FsResponds(r, 404)
          ELSE FsAwaits(r, fsReq[r], "readFile", fsReq[r].path)
     ELSE FsResponds(r, IF outcome = "ok" THEN 200 ELSE 500)
  /\ UNCHANGED allowedPaths
  /\ UNCHANGED exceptFsVars

\* GET /api/workspace/config up to await fs.stat(workspaceDir)
WorkspaceConfig(workspaceDir) ==
  /\ IF workspaceDir = <<>> THEN FsRespondsAtOnce(200)
     ELSE FsStarts([NoFsCall EXCEPT !.route = "workspace-config", !.path = workspaceDir],
                   "stat", workspaceDir)
  /\ UNCHANGED allowedPaths
  /\ UNCHANGED exceptFsVars

\* fs.stat settles: 200 in every case, the directory is allowed if it is one
WorkspaceConfigSettles(r, kind) ==
  /\ fsReq[r].route = "workspace-config"
  /\ IF kind = "dir"
     THEN allowedPaths' = addAllowedPath(allowedPaths, fsReq[r].path)
     ELSE UNCHANGED allowedPaths
  /\ FsResponds(r, 200)
  /\ UNCHANGED exceptFsVars

\* GET /api/workspace/directories up to await fs.stat(workspaceDir)
WorkspaceDirectories(workspaceDir) ==
  /\ IF workspaceDir = <<>> THEN FsRespondsAtOnce(400)
     ELSE FsStarts([NoFsCall EXCEPT !.route = "workspace-directories", !.path = workspaceDir],
                   "stat", workspaceDir)
  /\ UNCHANGED allowedPaths
  /\ UNCHANGED exceptFsVars

\* fs.stat settles (up to await fs.readdir), or fs.readdir settles with the
\* names of the visible directories
WorkspaceDirectoriesSettles(r, outcome, names) ==
  /\ fsReq[r].route = "workspace-directories"
  /\ IF fsReq[r].pc = "stat"
     THEN IF outcome = "throw"
          THEN /\ FsResponds(r, 400)
               /\ UNCHANGED allowedPaths
          ELSE /\ allowedPaths' = addAllowedPath(allowedPaths, fsReq[r].path)
               /\ FsAwaits(r, fsReq[r], "readdir", fsReq[r].path)
     ELSE IF outcome = "throw"
          THEN /\ FsResponds(r, 500)
               /\ UNCHANGED allowedPaths
          ELSE /\ allowedPaths' =
                    allowedPaths \cup {resolve(Append(fsReq[r].path, n)) : n \in names}
               /\ FsResponds(r, 200)
  /\ UNCHANGED exceptFsVars

\* One request is drawn for each way a handler can go: the fields a handler
\* never reaches (after a missing body, a missing or a non-string field) are
\* left out of the draw.
FsNext ==
  LET GuardedBodies == {<<FALSE, <<>>>>} \cup {<<TRUE, f>> : f \in FsPaths}
      SaveImageBodies ==
        {<<FALSE, "", "", <<>>>>, <<TRUE, "", "img.png", <<"proj">>>>,
         <<TRUE, "aGk=", "", <<"proj">>>>, <<TRUE, "aGk=", "img.png", <<>>>>,
         <<TRUE, "aGk=", "img.png", NonStringPath>>}
          \cup {<<TRUE, d, n, pp>> : d \in ImageData \ {""}, n \in Filenames \ {""},
                                     pp \in ProjectDirs \ {<<>>, NonStringPath}}
      ImageQueries ==
        {<<FALSE, <<>>, <<>>>>, <<TRUE, <<>>, <<>>>>, <<TRUE, NonStringPath, <<>>>>}
          \cup {<<TRUE, i, pp>> : i \in ImagePaths \ {<<>>, NonStringPath},
                                  pp \in ProjectDirs} IN
  \/ \E route \in GuardedRoutes, b \in GuardedBodies : FsGuarded(route, b[1], b[2])
  \/ \E r \in FsReqs, o \in Outcomes : FsGuardedSettles(r, o)
  \/ \E b \in GuardedBodies : FsExists(b[1], b[2])
  \/ \E r \in FsReqs : FsExistsSettles(r)
  \/ \E b \in GuardedBodies : FsValidatePath(b[1], b[2])
  \/ \E r \in FsReqs, k \in StatKinds : FsValidatePathSettles(r, k)
  \/ \E b \in SaveImageBodies : FsSaveImage(b[1], b[2], b[3], b[4])
  \/ \E r \in FsReqs, o \in Outcomes, t \in Timestamps : FsSaveImageSettles(r, o, t)
  \/ \E q \in ImageQueries : FsImage(q[1], q[2], q[3])
  \/ \E r \in FsReqs, o \in Outcomes : FsImageSettles(r, o)
  \/ \E w \in WorkspaceDirs : WorkspaceConfig(w)
  \/ \E r \in FsReqs, k \in StatKinds : WorkspaceConfigSettles(r, k)
  \/ \E w \in WorkspaceDirs : WorkspaceDirectories(w)
  \/ \E r \in FsReqs, o \in Outcomes, names \in SUBSET SubdirNames :
       WorkspaceDirectoriesSettles(r, o, names)

FsSpec == Init /\ [][FsNext]_vars

-----------------------------------------------------------------------------
(* WebSocket fan-out (index.ts). Events are numbered in emission order.    *)

\* wss.on("connection"): the socket is OPEN and its subscription is made
WsConnect(c) ==
  /\ clients[c].readyState = "NONE"
  /\ clients' = [clients EXCEPT ![c] = [readyState |-> "OPEN", subscribed |-> TRUE,
                                        errored |-> FALSE, received |-> <<>>]]
  /\ UNCHANGED emitted
  /\ UNCHANGED exceptWsVars

\* Faulty variant: the subscriber sends whatever the socket's readyState is.
WsEmitNoStateCheck ==
  /\ emitted < MaxEvents
  /\ emitted' = emitted + 1
  /\ clients' = [c \in Clients |->
                   IF clients[c].subscribed
                   THEN [clients[c] EXCEPT !.received = Append(@, emitted + 1)]
                   ELSE clients[c]]
  /\ UNCHANGED exceptWsVars

\* events.emit: every subscriber in place is called; it sends if its socket is OPEN
WsEmit ==
  /\ emitted < MaxEvents
  /\ emitted' = emitted + 1
  /\ clients' = [c \in Clients |->
                   IF clients[c].subscribed /\ clients[c].readyState = "OPEN"
                   THEN [clients[c] EXCEPT !.received = Append(@, emitted + 1)]
                   ELSE clients[c]]
  /\ UNCHANGED exceptWsVars

\* The closing handshake starts: readyState is CLOSING, no handler runs yet
WsClosing(c) ==
  /\ clients[c].readyState = "OPEN"
  /\ clients' = [clients EXCEPT ![c].readyState = "CLOSING"]
  /\ UNCHANGED emitted
  /\ UNCHANGED exceptWsVars

\* ws.on("error"): unsubscribe(); the socket is left OPEN or CLOSING
WsOnError(c, readyState) ==
  /\ clients[c].readyState \in {"OPEN", "CLOSING"}
  /\ readyState \in {clients[c].readyState, "CLOSING"}
  /\ clients' = [clients EXCEPT ![c].readyState = readyState,
                                ![c].subscribed = FALSE,
                                ![c].errored = TRUE]
  /\ UNCHANGED emitted
  /\ UNCHANGED exceptWsVars

\* ws.on("close"): unsubscribe()
WsOnClose(c) ==
  /\ clients[c].readyState \in {"OPEN", "CLOSING"}
  /\ clients' = [clients EXCEPT ![c].readyState = "CLOSED",
                                ![c].subscribed = FALSE]
  /\ UNCHANGED emitted
  /\ UNCHANGED exceptWsVars

WsNext ==
  \/ \E c \in Clients : WsConnect(c)
  \/ WsEmit
  \/ \E c \in Clients : WsClosing(c)
  \/ \E c \in Clients, r \in {"OPEN", "CLOSING"} : WsOnError(c, r)
  \/ \E c \in Clients : WsOnClose(c)

WsSpec == Init /\ [][WsNext]_vars

-----------------------------------------------------------------------------
(* BacklogModifyDialog. A pending result is the sequence of its changes;   *)
(* a call of the API settles with a success response, a failure response   *)
(* or a rejection, and the dialog can issue a call while earlier ones have *)
(* not settled: generateCalls and applyCalls count the calls in flight.    *)
(* The controls of the dialog can be used only while it is open; the       *)
(* continuation of a call runs whether it is open or not.                  *)

DialogPrompts == {"", " ", "tidy"}
\* prompt.trim()
trim(p) == IF p = " " THEN "" ELSE p
\* pendingModifyResult.changes.map((_, i) => i)
ChangeIndexes(result) == 0..(Len(result) - 1)
ArrivingResult == <<"c1", "c2">>
ApiOutcomes == {"success", "failure", "reject"}

\* The callback of useEffect on [open, pendingModifyResult], as the render c
\* created it (it reads the open and pendingModifyResult of that render),
\* applied to the state d
DialogEffect(d, c) ==
  IF c.open
  THEN IF c.pendingModifyResult # NoPending
       THEN [d EXCEPT !.mode = "review",
                      !.selectedChanges = ChangeIndexes(c.pendingModifyResult)]
       ELSE [d EXCEPT !.mode = "input"]
  ELSE d

\* The render that commits the updates a handler has queued, d being the
\* state with those updates. The calls in flight are not React state: when
\* no setter has changed a prop or a state value nothing renders, and an
\* effect that is waiting goes on waiting. Otherwise React runs the effect
\* of the previous render, if it has not run yet, before it renders again,
\* so the updates of that effect come after the handler's; the committed
\* render leaves its own effect to run (effectPending) if open or
\* pendingModifyResult differ from the previous render's.
DialogRenders(d) ==
  IF [d EXCEPT !.generateCalls = dialog.generateCalls,
               !.applyCalls = dialog.applyCalls] = dialog
  THEN d
  ELSE LET e == IF dialog.effectPending THEN DialogEffect(d, dialog) ELSE d
       IN [e EXCEPT !.effectPending =
              e.open # dialog.open \/ e.pendingModifyResult # dialog.pendingModifyResult]

\* The effect of the committed render runs, as a step of its own after the
\* commit: until then the dialog shows the committed state and its controls
\* can be used in it.
DialogEffectRuns ==
  /\ dialog.effectPending
  /\ dialog' = [DialogEffect(dialog, dialog) EXCEPT !.effectPending = FALSE]
  /\ UNCHANGED exceptDialogVars

\* The parent opens the dialog.
DialogOpens ==
  /\ ~dialog.open
  /\ dialog' = DialogRenders([dialog EXCEPT !.open = TRUE])
  /\ UNCHANGED exceptDialogVars

\* onClose from Cancel, Review Later or the dialog's own close control
DialogCloses ==
  /\ dialog.open
  /\ dialog' = DialogRenders([dialog EXCEPT !.open = FALSE])
  /\ UNCHANGED exceptDialogVars

\* The textarea of mode 'input'
SetPrompt(p) ==
  /\ dialog.open /\ dialog.mode = "input"
  /\ dialog' = DialogRenders([dialog EXCEPT !.prompt = p])
  /\ UNCHANGED exceptDialogVars

\* The parent stores the result of a finished generation.
ResultArrives ==
  /\ dialog.isGeneratingModify
  /\ dialog.pendingModifyResult = NoPending
  /\ dialog' = DialogRenders([dialog EXCEPT !.pendingModifyResult = ArrivingResult,
                                            !.isGeneratingModify = FALSE])
  /\ UNCHANGED exceptDialogVars

\* The checkbox of one change
toggleChangeSelected(index) ==
  /\ dialog.open /\ dialog.mode = "review"
  /\ index \in ChangeIndexes(dialog.pendingModifyResult)
  /\ dialog' = DialogRenders([dialog EXCEPT !.selectedChanges =
                   IF index \in @ THEN @ \ {index} ELSE @ \cup {index}])
  /\ UNCHANGED exceptDialogVars

\* The select-all checkbox
toggleAllChanges ==
  /\ dialog.open /\ dialog.mode = "review"
  /\ dialog.pendingModifyResult # NoPending
  /\ dialog' = DialogRenders([dialog EXCEPT !.selectedChanges =
                   IF Cardinality(@) = Len(dialog.pendingModifyResult)
                   THEN {} ELSE ChangeIndexes(dialog.pendingModifyResult)])
  /\ UNCHANGED exceptDialogVars

\* handleGenerate up to await api.backlogModify.generate. The button is
\* rendered in mode 'input' and disabled while isGeneratingModify or while the
\* prompt is empty; apiAvailable is whether getElectronAPI() has backlogModify.
handleGenerate(apiAvailable) ==
  /\ dialog.open /\ dialog.mode = "input"
  /\ ~dialog.isGeneratingModify
  /\ trim(dialog.prompt) # ""
  /\ IF ~apiAvailable
     THEN dialog' = dialog
     ELSE /\ dialog.generateCalls < MaxCalls
          /\ dialog' = DialogRenders([dialog EXCEPT !.isGeneratingModify = TRUE,
                                                    !.generateCalls = @ + 1])
  /\ UNCHANGED exceptDialogVars

\* api.backlogModify.generate settles
DialogGenerateSettles(outcome) ==
  /\ dialog.generateCalls > 0
  /\ dialog' =
       CASE outcome = "success" ->
              DialogRenders([dialog EXCEPT !.generateCalls = @ - 1, !.prompt = "",
                                           !.open = FALSE])
         [] outcome = "failure" ->
              DialogRenders([dialog EXCEPT !.generateCalls = @ - 1,
                                           !.isGeneratingModify = FALSE])
         [] OTHER -> [dialog EXCEPT !.generateCalls = @ - 1]
  /\ UNCHANGED exceptDialogVars

\* handleApply up to await api.backlogModify.apply. The button is rendered in
\* mode 'review' and disabled while nothing is selected.
handleApply(apiAvailable) ==
  /\ dialog.open /\ dialog.mode = "review"
  /\ dialog.selectedChanges # {}
  /\ IF dialog.pendingModifyResult = NoPending \/ ~apiAvailable
     THEN dialog' = dialog
     ELSE /\ dialog.applyCalls < MaxCalls
          /\ dialog' = DialogRenders([dialog EXCEPT !.mode = "applying",
                                                    !.applyCalls = @ + 1])
  /\ UNCHANGED exceptDialogVars

\* api.backlogModify.apply settles
DialogApplySettles(outcome) ==
  /\ dialog.applyCalls > 0
  /\ dialog' =
       CASE outcome = "success" ->
              DialogRenders([dialog EXCEPT !.applyCalls = @ - 1,
                                           !.pendingModifyResult = NoPending,
                                           !.open = FALSE])
         [] outcome = "failure" ->
              DialogRenders([dialog EXCEPT !.applyCalls = @ - 1, !.mode = "review"])
         [] OTHER -> [dialog EXCEPT !.applyCalls = @ - 1]
  /\ UNCHANGED exceptDialogVars

\* The Discard button of mode 'review'
handleDiscard ==
  /\ dialog.open /\ dialog.mode = "review"
  /\ dialog' = DialogRenders([dialog EXCEPT !.pendingModifyResult = NoPending,
                                            !.mode = "input"])
  /\ UNCHANGED exceptDialogVars

DialogNext ==
  \/ DialogOpens
  \/ DialogEffectRuns
  \/ DialogCloses
  \/ \E p \in DialogPrompts : SetPrompt(p)
  \/ ResultArrives
  \/ \E i \in ChangeIndexes(ArrivingResult) : toggleChangeSelected(i)
  \/ toggleAllChanges
  \/ \E a \in BOOLEAN : handleGenerate(a)
  \/ \E o \in ApiOutcomes : DialogGenerateSettles(o)
  \/ \E a \in BOOLEAN : handleApply(a)
  \/ \E o \in ApiOutcomes : DialogApplySettles(o)
  \/ handleDiscard

DialogSpec == Init /\ [][DialogNext]_vars

-----------------------------------------------------------------------------
(* Properties *)

TerminalEvents(j) == SelectSeq(bus, LAMBDA e : e.job = j /\ IsTerminal(e))
ErrorEvents(j) == SelectSeq(bus, LAMBDA e : e.job = j /\ e.type = "backlog_modify_error")
ValidStart(projectPath, prompt) == projectPath # "" /\ prompt # ""
AllDone == created > 0 /\ \A j \in Jobs : Accepted(j) => task[j].pc = "done"

\* C1: at most one background generation task is in flight at any time (a
\* start issued before the running job's terminal event is always rejected).
C1_SingleFlight == Cardinality({j \in Jobs : InFlight(j)}) <= 1

\* C2: a valid start issued while isRunning is true answers 'already running'
\* and changes nothing: no handle created, no task launched, no bus event,
\* isRunning and the stored handle as before.
C2_StartWhileRunningRefused ==
  [][\A pp \in ProjectPaths, pr \in Prompts, m \in Models :
       (Generate(TRUE, pp, pr, m) /\ ValidStart(pp, pr) /\ isRunning)
         => /\ res' = AlreadyRunning
            /\ UNCHANGED <<isRunning, currentAbortController, aborted, created, task, bus>>]_vars

C2_Witness ==
  /\ res = AlreadyRunning
  /\ isRunning
  /\ \E j \in Jobs : InFlight(j) /\ currentAbortController = j

\* C3: for every accepted start at most one terminal event (complete or
\* error) is ever published on the bus.
C3_AtMostOneTerminal == \A j \in Jobs : Len(TerminalEvents(j)) <= 1

\* C4: every accepted start is eventually followed by a terminal event of its
\* job on the bus.
C4_TerminalEventually ==
  \A j \in Jobs : Accepted(j) ~> (Len(TerminalEvents(j)) >= 1)

C4_Witness ==
  \E j \in Jobs : /\ task[j].pc = "done"
                  /\ Len(ErrorEvents(j)) >= 1
                  /\ \E i \in 1..Len(bus) : bus[i].job = j /\ bus[i].text = "Generating"

\* C5: whenever a terminal event is handed to the bus subscribers, the running
\* flag has already been cleared.
C5_ClearedBeforeTerminal ==
  \A i \in 1..Len(bus) : IsTerminal(bus[i]) => ~bus[i].running

\* C6: no progress event is published while status reports not-running.
C6_NoProgressWhileIdle ==
  \A i \in 1..Len(bus) : bus[i].type = "backlog_modify_progress" => bus[i].running

\* C7: after any accepted start the scope is eventually unlocked: isRunning
\* false and no stored cancellation handle.
C7_NeverLocked ==
  \A j \in Jobs : Accepted(j) ~> (~isRunning /\ currentAbortController = Null)

C7_Witness ==
  \E j \in Jobs : /\ task[j].pc = "done"
                  /\ Len(ErrorEvents(j)) >= 1
                  /\ ~aborted[j]
                  /\ ~isRunning
                  /\ currentAbortController = Null

\* C8: stop with a stored handle signals it and leaves isRunning false and the
\* handle null in the same step, the background task untouched; stop without
\* a stored handle changes nothing and signals nothing; both answer success.
C8_StopEffect ==
  [][Stop =>
       /\ res'.op = "stop" /\ res'.success /\ res'.code = 200
       /\ UNCHANGED <<task, bus, created>>
       /\ IF currentAbortController # Null
          THEN /\ aborted'[currentAbortController]
               /\ \A h \in Jobs : h # currentAbortController => aborted'[h] = aborted[h]
               /\ ~isRunning'
               /\ currentAbortController' = Null
          ELSE UNCHANGED <<isRunning, currentAbortController, aborted>>]_vars

C8_Witness ==
  /\ res.op = "stop" /\ res.text = "Generation stopped"
  /\ ~isRunning
  /\ currentAbortController = Null
  /\ \E j \in Jobs : InFlight(j) /\ aborted[j]

\* A stop that follows a stop, or that comes when every job has completed,
\* answers success and leaves the state as it found it.
RedundantStopIsNoOp ==
  [][(Stop /\ (res.op = "stop" \/ AllDone))
       => /\ res'.success
          /\ UNCHANGED <<isRunning, currentAbortController, aborted, created, task, bus>>]_vars

\* C9: stopping a job, once or twice in succession or after it has completed,
\* never leads to a second terminal event for that job, and a stop that
\* follows a stop, or that comes when every job has completed, answers
\* success and leaves the state as it found it.
C9_StopIdempotent ==
  /\ [](\A j \in Jobs : aborted[j] => Len(TerminalEvents(j)) <= 1)
  /\ RedundantStopIsNoOp

\* C10: a job ended by cancellation is not reported as an error event.
C10_CancelNotError ==
  \A i \in 1..Len(bus) :
    bus[i].type = "backlog_modify_error" => bus[i].text # "Generation aborted"

Last(seq) == seq[Len(seq)]
CompleteEvents(j) == SelectSeq(bus, LAMBDA e : e.job = j /\ e.type = "backlog_modify_complete")
HasErrorResult(msgs) ==
  \E i \in 1..Len(msgs) : msgs[i].type = "result" /\ msgs[i].subtype = "error"
NoResultMessage(msgs) == \A i \in 1..Len(msgs) : msgs[i].type # "result"
\* The step in which job j's generateBacklogModify returns or throws out of the loop.
LeavesLoop(j) == task[j].pc = "stream" /\ task'[j].pc \in {"fulfilled", "rejected"}
\* The step in which job j's loop takes one more message, without throwing.
TakesMessage(j) ==
  /\ task[j].pc = "stream" /\ task'[j].pc = "stream"
  /\ Len(task'[j].yielded) = Len(task[j].yielded) + 1
TextBlocks(content) == SelectSeq(content, LAMBDA b : b.type = "text")

RECURSIVE TextOfBlocks(_)
\* The texts of the text blocks of one message, joined in block order.
TextOfBlocks(content) ==
  IF content = <<>> THEN ""
  ELSE (IF Head(content).type = "text" THEN Head(content).text ELSE "")
         \o TextOfBlocks(Tail(content))

RECURSIVE TextOfMessages(_)
\* The texts of the assistant messages of a sequence, joined in message order.
TextOfMessages(msgs) ==
  IF msgs = <<>> THEN ""
  ELSE (IF Head(msgs).type = "assistant" THEN TextOfBlocks(Head(msgs).content) ELSE "")
         \o TextOfMessages(Tail(msgs))

\* C11: when the provider's sequence fails (the iteration throws, or a result
\* message of subtype 'error' was yielded), the job leaves the loop by
\* publishing an error event that carries a message, not a complete event,
\* and the scope is left not running.
C11_ProviderFailureIsError ==
  [][\A j \in Jobs :
       (LeavesLoop(j) /\ (StreamThrows(j) \/ HasErrorResult(task[j].yielded)))
         => /\ Len(bus') = Len(bus) + 1
            /\ Last(bus').job = j
            /\ Last(bus').type = "backlog_modify_error"
            /\ Last(bus').text # ""
            /\ ~isRunning']_vars

\* C12: every text block of an assistant message the loop takes is published
\* as a progress event carrying that text, in the order of the blocks.
C12_ProgressPerTextBlock ==
  [][\A j \in Jobs :
       (TakesMessage(j) /\ Last(task'[j].yielded).type = "assistant")
         => LET blocks == TextBlocks(Last(task'[j].yielded).content) IN
            /\ Len(bus') = Len(bus) + Len(blocks)
            /\ \A i \in 1..Len(blocks) :
                 /\ bus'[Len(bus) + i].type = "backlog_modify_progress"
                 /\ bus'[Len(bus) + i].job = j
                 /\ bus'[Len(bus) + i].text = blocks[i].text]_vars

\* C13: as long as the provider has yielded no result message, the accumulated
\* text is the concatenation of the text blocks yielded so far, in message
\* order and block order; tool_use blocks and other messages add nothing.
C13_AccumulatedIsConcatenation ==
  \A j \in Jobs :
    (task[j].pc = "stream" /\ NoResultMessage(task[j].yielded))
      => task[j].responseText = TextOfMessages(task[j].yielded)

C13_Witness ==
  \E j \in Jobs :
    /\ task[j].pc = "stream"
    /\ task[j].yielded =
         << Msg("assistant", "", <<TextBlock("a"), ToolUseBlock, TextBlock("b")>>, ""),
            Msg("system", "", <<>>, "") >>
    /\ task[j].responseText = "ab"

\* C14: a success result message replaces the accumulated text exactly when
\* its result is strictly longer; a result that is shorter, of equal length
\* or empty leaves the accumulated text as it was.
C14_ResultPreference ==
  [][\A j \in Jobs :
       (TakesMessage(j) /\ Last(task'[j].yielded).type = "result"
                        /\ Last(task'[j].yielded).subtype = "success")
         => task'[j].responseText =
              IF Len(Last(task'[j].yielded).result) > Len(task[j].responseText)
              THEN Last(task'[j].yielded).result
              ELSE task[j].responseText]_vars

C14_Witness ==
  \E j \in Jobs :
    /\ task[j].pc = "stream"
    /\ task[j].yielded = << Msg("assistant", "", <<TextBlock("b")>>, ""),
                            Msg("result", "success", <<>>, "x") >>
    /\ task[j].responseText = "b"

\* C15: when the final response text is empty or does not parse, the job
\* publishes a complete event whose artifact has no changes and no
\* dependency updates, and a job that published complete has no error event.
C15_ParseFailureCompletes ==
  /\ [][\A j \in Jobs :
          (StreamEnds(j) /\ extractJsonWithArray(task[j].responseText) = <<>>)
            => /\ Len(bus') = Len(bus) + 1
               /\ Last(bus').job = j
               /\ Last(bus').type = "backlog_modify_complete"
               /\ Last(bus').result.changes = <<>>
               /\ Last(bus').result.dependencyUpdates = <<>>]_vars
  /\ [](\A j \in Jobs : Len(CompleteEvents(j)) >= 1 => Len(ErrorEvents(j)) = 0)

C15_Witness ==
  \E j \in Jobs :
    /\ task[j].pc = "done"
    /\ Len(CompleteEvents(j)) = 1
    /\ CompleteEvents(j)[1].result.summary = "Failed to parse AI response"
    /\ CompleteEvents(j)[1].result.changes = <<>>
    /\ Len(ErrorEvents(j)) = 0

\* C16: the admission check and the raising of the flag are one step: a valid
\* start that observes isRunning false is accepted and leaves isRunning true,
\* a valid start that observes it true is rejected, so of two starts arriving
\* while the scope is idle exactly one is accepted.
C16_AdmissionAtomic ==
  [][\A pp \in ProjectPaths, pr \in Prompts, m \in Models :
       (Generate(TRUE, pp, pr, m) /\ ValidStart(pp, pr))
         => IF isRunning
            THEN ~res'.success /\ created' = created
            ELSE res'.success /\ created' = created + 1 /\ isRunning']_vars

C16_Witness ==
  /\ res = AlreadyRunning
  /\ created = 1
  /\ task[1].pc = "getAll"
  /\ ~aborted[1]
  /\ bus = <<>>

\* C17: an accepted start leaves isRunning true and stores a controller that
\* no earlier job used and that is not signaled, launches the background task
\* and answers success while that task is still pending.
C17_AcceptedStart ==
  [][\A pp \in ProjectPaths, pr \in Prompts, m \in Models :
       (Generate(TRUE, pp, pr, m) /\ ValidStart(pp, pr) /\ ~isRunning)
         => /\ isRunning'
            /\ currentAbortController' \in Jobs
            /\ task[currentAbortController'].pc = "none"
            /\ ~aborted'[currentAbortController']
            /\ task'[currentAbortController'].pc = "getAll"
            /\ \A j \in Jobs : j # currentAbortController' => task'[j] = task[j]
            /\ res' = Response("generate", 200, TRUE, "", FALSE)
            /\ bus' = bus]_vars

C17_Witness ==
  /\ res = Response("generate", 200, TRUE, "", FALSE)
  /\ isRunning
  /\ currentAbortController = 2
  /\ aborted[1] /\ ~aborted[2]
  /\ task[2].pc = "getAll"

\* C18: status answers the current value of the running flag and changes
\* neither the flag, the stored handle, the controllers, the tasks nor the bus.
C18_StatusPureRead ==
  [][Status =>
       /\ res' = Response("status", 200, TRUE, "", isRunning)
       /\ UNCHANGED <<isRunning, currentAbortController, aborted, created, task, bus>>]_vars

C18_Witness ==
  /\ res = Response("status", 200, TRUE, "", TRUE)
  /\ isRunning
  /\ \E j \in Jobs : InFlight(j) /\ currentAbortController = j

StoredIds(stored) == {id \in FeatureIds : stored[id] # Missing}

UpdateChangesOf(plan) == {n \in DOMAIN plan : plan[n].type = "update"}

\* The request whose handler runs in the step
Acting(r) == apply'[r] # apply[r]

\* C20: apply acts on update-type changes only: no step creates or deletes a
\* stored feature, a step that changes a stored feature carries out an
\* update-type change of the plan of the request that takes the step, on
\* that feature, and every entry of an answered appliedChanges names the
\* feature of an update-type change of that request's plan, with no more
\* entries than the plan has update-type changes.
C20_OnlyUpdates ==
  [][/\ StoredIds(features') = StoredIds(features)
     /\ features' # features =>
          \E r \in ApplyReqs :
            /\ Acting(r)
            /\ apply[r].pc = "update"
            /\ \E n \in UpdateChangesOf(apply[r].plan) :
                 /\ apply[r].plan[n] = apply[r].updates[apply[r].i]
                 /\ \A id \in FeatureIds :
                      id # apply[r].plan[n].featureId => features'[id] = features[id]
     /\ \A r \in ApplyReqs :
          (ApplyInFlight(r) /\ apply'[r].pc = "idle" /\ applyRes'[r].success) =>
            /\ Len(applyRes'[r].appliedChanges) <= Cardinality(UpdateChangesOf(apply[r].plan))
            /\ \A k \in DOMAIN applyRes'[r].appliedChanges :
                 \E n \in UpdateChangesOf(apply[r].plan) :
                   applyRes'[r].appliedChanges[k] = UpdatedTag(apply[r].plan[n].featureId)]_vars

C20_Witness ==
  /\ apply[1].pc = "update"
  /\ Len(apply[1].plan) = 2
  /\ apply[1].plan[1] = [type |-> "delete", featureId |-> "f1",
                         feature |-> [given |-> TRUE, status |-> "done"]]
  /\ apply[1].plan[2].type = "update"
  /\ apply[1].plan[2].featureId = "f2"
  /\ apply[1].updates = <<apply[1].plan[2]>>
  /\ features["f1"] = "backlog"
  /\ apply[1].featureMap["f1"] = "backlog"
  /\ apply[1].appliedChanges = <<>>

\* appliedChanges of request r as it stands after a step
AppliedAfter(r) ==
  IF apply'[r].pc = "idle" THEN applyRes'[r].appliedChanges ELSE apply'[r].appliedChanges

\* Request r calls featureLoader.update in the step: the loop has just
\* tested the change it is at after the step and reached the await.
CallsUpdate(r) ==
  /\ apply'[r].pc = "update"
  /\ apply[r].pc = "update" => apply'[r].i # apply[r].i

\* C21: when the loop of a request goes on to update a feature for a change,
\* the change has a featureId and feature data and the feature is stored with
\* status 'backlog' or 'in_progress' at that moment; and a step writes a
\* feature or adds an entry to appliedChanges only for the change whose
\* update the request had called, the entry naming that change's feature.
C21_OnlyEligibleApplied ==
  [][\A r \in ApplyReqs :
       /\ CallsUpdate(r) =>
            LET c == apply'[r].updates[apply'[r].i] IN
            /\ c.featureId \in FeatureIds
            /\ c.feature.given
            /\ features'[c.featureId] \in {"backlog", "in_progress"}
       /\ (Acting(r) /\ AppliedAfter(r) # apply[r].appliedChanges) =>
            /\ apply[r].pc = "update"
            /\ AppliedAfter(r) =
                 Append(apply[r].appliedChanges,
                        UpdatedTag(apply[r].updates[apply[r].i].featureId))
       /\ (Acting(r) /\ features' # features) => apply[r].pc = "update"]_vars

\* The changes of the object a response text parses into (none if it does not parse)
ParsedChanges(response) ==
  IF extractJsonWithArray(response) = <<>> THEN <<>>
  ELSE extractJsonWithArray(response)[1].changes

RECURSIVE UpdatesInOrder(_)
UpdatesInOrder(cs) ==
  IF cs = <<>> THEN <<>>
  ELSE (IF Head(cs).type = "update" THEN <<Head(cs)>> ELSE <<>>) \o UpdatesInOrder(Tail(cs))

\* C22: the result carried by a complete event holds exactly the update-type
\* changes of the object the job's response text parses into, in their
\* original order (none when the text does not parse), and an empty
\* dependencyUpdates list.
C22_CompleteCarriesOnlyUpdates ==
  [][(bus' # bus /\ Last(bus').type = "backlog_modify_complete")
       => LET r == Last(bus').result
              response == task[Last(bus').job].responseText IN
          /\ \A k \in DOMAIN r.changes : r.changes[k].type = "update"
          /\ r.changes = UpdatesInOrder(ParsedChanges(response))
          /\ r.dependencyUpdates = <<>>]_vars

C22_Witness ==
  \E j \in Jobs :
    /\ Len(CompleteEvents(j)) = 1
    /\ CompleteEvents(j)[1].result.summary = "order"
    /\ CompleteEvents(j)[1].result.changes =
         << [type |-> "update", featureId |-> "f3"],
            [type |-> "update", featureId |-> "f1"],
            [type |-> "update", featureId |-> "f3"] >>
    /\ CompleteEvents(j)[1].result.dependencyUpdates = <<>>

\* C23: whenever a task whose controller has not been signaled is in flight,
\* isRunning is true and the stored handle is that task's controller (a job
\* that finishes clears only its own running state).
C23_LiveJobOwnsRunningState ==
  \A j \in Jobs :
    (InFlight(j) /\ ~aborted[j]) => (isRunning /\ currentAbortController = j)

\* C24: a job whose controller has been signaled publishes no complete event
\* from then on, whether its stream yields another message or ends.
C24_NoCompleteAfterSignal ==
  [][\A j \in Jobs :
       aborted[j] => Len(CompleteEvents(j))' = Len(CompleteEvents(j))]_vars

\* C25: in every state between steps, isRunning is true exactly when the
\* stored controller is non-null, and a stored controller is not signaled.
C25_FlagMatchesHandle ==
  /\ isRunning <=> (currentAbortController # Null)
  /\ currentAbortController # Null => ~aborted[currentAbortController]

C25_Witness ==
  /\ isRunning
  /\ currentAbortController = 2
  /\ aborted[1] /\ ~aborted[2]
  /\ task[1].pc = "done"
  /\ task[2].pc = "stream"

\* C26: a start that carries no projectPath or no prompt (a request without a
\* body carries neither) is answered 400 and changes nothing else, whether the
\* scope is idle or a job is running.
C26_InvalidStartRefused ==
  [][\A b \in BOOLEAN, pp \in ProjectPaths, pr \in Prompts, m \in Models :
       (Generate(b, pp, pr, m) /\ (~b \/ ~ValidStart(pp, pr)))
         => /\ res'.op = "generate"
            /\ res'.code = 400
            /\ ~res'.success
            /\ UNCHANGED <<isRunning, currentAbortController, aborted, created, task, bus>>]_vars

\* The positions of request r after the one being processed whose change is
\* eligible: it has a featureId and feature data, and its feature, as the
\* request knows it after the step (the features it loaded, with its own
\* updates), exists with status 'backlog' or 'in_progress'
LaterEligible(r) ==
  {p \in (apply[r].i + 1)..Len(apply[r].updates) :
     LET c == apply[r].updates[p]
         done == apply[r].updates[apply[r].i].featureId
         known == IF AppliedAfter(r) = apply[r].appliedChanges
                  THEN apply[r].featureMap
                  ELSE [apply[r].featureMap EXCEPT ![done] = features'[done]] IN
     /\ c.featureId \in FeatureIds
     /\ c.feature.given
     /\ known[c.featureId] \in {"backlog", "in_progress"}}

\* C27: the changes a request processes are the update changes in plan
\* order; the step that settles a storage update either adds the entry
\* 'updated:<featureId>' at the end of appliedChanges (success) or adds
\* nothing and leaves storage alone (failure); in both cases processing goes
\* on with the next eligible change, and when none is left the answer is
\* success:true with the entries collected.
C27_AppliedChangesExact ==
  [][\A r \in ApplyReqs :
       (Acting(r) /\ apply[r].pc = "update") =>
         /\ apply[r].updates = UpdatesInOrder(apply[r].plan)
         /\ \/ AppliedAfter(r) = Append(apply[r].appliedChanges,
                                        UpdatedTag(apply[r].updates[apply[r].i].featureId))
            \/ AppliedAfter(r) = apply[r].appliedChanges /\ features' = features
         /\ IF LaterEligible(r) = {}
            THEN /\ apply'[r].pc = "idle"
                 /\ applyRes'[r].code = 200
                 /\ applyRes'[r].success
            ELSE /\ apply'[r].pc = "update"
                 /\ apply'[r].i \in LaterEligible(r)
                 /\ \A p \in LaterEligible(r) : apply'[r].i <= p
                 /\ applyRes'[r] = applyRes[r]]_vars

C27_Witness ==
  /\ apply[1].pc = "update"
  /\ apply[1].i = 2
  /\ apply[1].plan = << [type |-> "update", featureId |-> "f1",
                         feature |-> [given |-> TRUE, status |-> "done"]],
                        [type |-> "update", featureId |-> "f2",
                         feature |-> [given |-> TRUE, status |-> "done"]] >>
  /\ apply[1].appliedChanges = <<>>
  /\ features = [id \in FeatureIds |-> "backlog"]

ContentRoutes ==
  {"read", "write", "mkdir", "readdir", "stat", "delete", "save-image", "image"}
GrowingRoutes ==
  {"validate-path", "save-image", "workspace-config", "workspace-directories"}

\* The route whose handler runs in the step
FsStepRoute ==
  LET r == CHOOSE q \in FsReqs : fsReq'[q] # fsReq[q] IN
  IF fsReq[r].route # "none" THEN fsReq[r].route ELSE fsReq'[r].route

\* C28: every file operation a route that reads, writes or deletes file
\* content calls is on a path inside the allowed set as it is when the call
\* is made (the set only grows, so this holds of every path inside the set
\* at the time of the request), and the allowed set never shrinks and grows
\* only through validate-path, the workspace routes and save-image.
C28_FsConfined ==
  [][/\ \A r \in FsReqs :
          (/\ fsReq'[r] # fsReq[r]
           /\ fsReq'[r].pc # "idle"
           /\ fsReq'[r].route \in ContentRoutes) =>
            \E a \in allowedPaths :
              IsInside(fsReq'[r].calls[Len(fsReq'[r].calls)].path, a)
     /\ allowedPaths \subseteq allowedPaths'
     /\ allowedPaths' # allowedPaths => FsStepRoute \in GrowingRoutes]_vars

\* Client c is connected and OPEN and has had neither close nor error.
Live(c) == clients[c].readyState = "OPEN" /\ ~clients[c].errored

\* C29: an emitted event is added, after the earlier ones, to what has been
\* sent to each client that is OPEN and has had no error at that moment, and
\* to no other client; a client that had an error or was closed has no
\* subscription, and nothing is sent outside an emit.
C29_FanOut ==
  /\ [](\A c \in Clients :
          (clients[c].errored \/ clients[c].readyState = "CLOSED") => ~clients[c].subscribed)
  /\ [][\A c \in Clients :
          clients'[c].received =
            IF emitted' # emitted /\ Live(c)
            THEN Append(clients[c].received, emitted')
            ELSE clients[c].received]_vars

C29_Witness ==
  /\ emitted = 3
  /\ clients[1].readyState = "CLOSED"
  /\ clients[1].errored
  /\ clients[1].received = <<1>>
  /\ clients[2].readyState = "OPEN"
  /\ clients[2].received = <<1, 2, 3>>

\* C30: when the call issued by handleApply settles, the dialog is not shown
\* in 'applying' mode: after a success response the pending result is cleared
\* and the dialog is closed, otherwise the pending result is as before and,
\* unless the effect of an earlier render was still to run and has set them,
\* the mode is 'review' and the selection is as before; and when a generate
\* call settles without having started a job, isGeneratingModify is false.
C30_DialogLeavesApplying ==
  [][/\ \A o \in ApiOutcomes :
          DialogApplySettles(o) =>
            /\ ~(dialog'.open /\ dialog'.mode = "applying")
            /\ IF o = "success"
               THEN dialog'.pendingModifyResult = NoPending /\ ~dialog'.open
               ELSE /\ dialog'.pendingModifyResult = dialog.pendingModifyResult
                    /\ ~dialog.effectPending =>
                         /\ dialog'.open => dialog'.mode = "review"
                         /\ dialog'.selectedChanges = dialog.selectedChanges
     /\ \A o \in ApiOutcomes \ {"success"} :
          DialogGenerateSettles(o) => ~dialog'.isGeneratingModify]_vars

====
